---- MODULE Spec2Model ----
(***************************************************************************)
(* Model of apppumpsv2.py: the friction-loss, energy-cost, advisory and    *)
(* diameter-sweep functions and the script that calls them.                *)
(*                                                                         *)
(* Python floats are modelled as binary floating-point numbers with the    *)
(* exponent range of IEEE-754 binary64 and a mantissa of Prec bits: every  *)
(* arithmetic operation rounds its exact result to nearest-even, overflows *)
(* to infinity, underflows gradually to zero, and raises where Python      *)
(* raises (division by zero, overflow of a power).                         *)
(***************************************************************************)
EXTENDS Integers, Sequences, FiniteSets

VARIABLES pc, inp, perdas_dict, h_man_total, velocidade_fluido, resultados,
          chart_data, sugestoes, relatorio, calls, erro

vars == <<pc, inp, perdas_dict, h_man_total, velocidade_fluido, resultados,
          chart_data, sugestoes, relatorio, calls, erro>>

(***************************************************************************)
(* Floating point.  A value is [k, s, m, e]: k = "fin" is s * m * 2^e,     *)
(* with 2^(Prec-1) <= m < 2^Prec (or less at the smallest exponent, or 0); *)
(* k = "inf" is s * infinity; k = "nan"; any other k is a raised exception *)
(* travelling up through the expression that raised it.                    *)
(***************************************************************************)
Prec == 12

EMax == 1023

EMinLsb == (2 - EMax) - Prec

Exceptions == {"ZeroDivisionError", "OverflowError", "ValueError", "TypeError", "KeyError"}

Raise(x) == [k |-> x, s |-> 1, m |-> 0, e |-> 0]

Zero == [k |-> "fin", s |-> 1, m |-> 0, e |-> 0]

Inf == [k |-> "inf", s |-> 1, m |-> 0, e |-> 0]

NaN == [k |-> "nan", s |-> 1, m |-> 0, e |-> 0]

IsExc(a) == a.k \in Exceptions

IsFin(a) == a.k = "fin"

IsZero(a) == a.k = "fin" /\ a.m = 0

Neg(a) == IF a.k \in {"fin", "inf"} /\ ~IsZero(a) THEN [a EXCEPT !.s = 0 - a.s] ELSE a

RECURSIVE BitLen(_)
BitLen(m) == IF m = 0 THEN 0 ELSE 1 + BitLen(m \div 2)

\* m / 2^sh rounded to nearest, ties to even
RShiftRound(m, sh) ==
    IF sh <= 0 THEN m
    ELSE IF sh > 30 THEN 0
    ELSE IF \/ m % (2^sh) > 2^(sh - 1)
            \/ m % (2^sh) = 2^(sh - 1) /\ (m \div (2^sh)) % 2 = 1
    THEN (m \div (2^sh)) + 1
    ELSE m \div (2^sh)

\* s * m * 2^e for an integer m, to the nearest integer
Shift(m, e) == IF e >= 0 THEN m * 2^e ELSE RShiftRound(m, 0 - e)

Pack(s, m, e) ==
    IF m = 0 THEN Zero
    ELSE IF e + Prec - 1 > EMax THEN [Inf EXCEPT !.s = s]
    ELSE [k |-> "fin", s |-> s, m |-> m, e |-> e]

Carry(s, m, e) == IF m = 2^Prec THEN Pack(s, 2^(Prec - 1), e + 1) ELSE Pack(s, m, e)

NormAt(s, m, e, sh) == Carry(s, Shift(m, 0 - sh), e + sh)

\* the float nearest to s * m * 2^e: Prec bits, or fewer at the smallest exponent
Norm(s, m, e) ==
    IF m = 0 THEN Zero
    ELSE NormAt(s, m, e, IF e + BitLen(m) - Prec < EMinLsb THEN EMinLsb - e
                          ELSE BitLen(m) - Prec)

\* an integer literal
F(n) == IF n < 0 THEN Norm(-1, 0 - n, 0) ELSE Norm(1, n, 0)

\* the mantissa shifted up to Prec bits (exact), and the exponent that goes with it
FullM(a) == a.m * 2^(Prec - BitLen(a.m))

FullE(a) == a.e - (Prec - BitLen(a.m))

FMul(a, b) ==
    IF IsExc(a) THEN a ELSE IF IsExc(b) THEN b
    ELSE IF a.k = "nan" \/ b.k = "nan" THEN NaN
    ELSE IF a.k = "inf" \/ b.k = "inf"
         THEN IF IsZero(a) \/ IsZero(b) THEN NaN ELSE [Inf EXCEPT !.s = a.s * b.s]
    ELSE Norm(a.s * b.s, a.m * b.m, a.e + b.e)

\* n / d with a sticky bit under the quotient
Quotient(s, n, d, e) == Norm(s, 2 * (n \div d) + (IF n % d = 0 THEN 0 ELSE 1), e)

FDiv(a, b) ==
    IF IsExc(a) THEN a ELSE IF IsExc(b) THEN b
    ELSE IF IsZero(b) THEN Raise("ZeroDivisionError")
    ELSE IF a.k = "nan" \/ b.k = "nan" THEN NaN
    ELSE IF a.k = "inf" THEN IF b.k = "inf" THEN NaN ELSE [Inf EXCEPT !.s = a.s * b.s]
    ELSE IF b.k = "inf" \/ IsZero(a) THEN Zero
    ELSE Quotient(a.s * b.s, FullM(a) * 2^(Prec + 2), FullM(b),
                  FullE(a) - (Prec + 2) - FullE(b) - 1)

Signed(t, e) == IF t < 0 THEN Norm(-1, 0 - t, e) ELSE Norm(1, t, e)

Aligned(ta, ea, tb, eb, e) == Signed(ta * 2^(ea - e) + tb * 2^(eb - e), e)

FAdd(a, b) ==
    IF IsExc(a) THEN a ELSE IF IsExc(b) THEN b
    ELSE IF a.k = "nan" \/ b.k = "nan" THEN NaN
    ELSE IF a.k = "inf" THEN IF b.k = "inf" /\ b.s # a.s THEN NaN ELSE a
    ELSE IF b.k = "inf" THEN b
    ELSE IF IsZero(a) THEN b
    ELSE IF IsZero(b) THEN a
    ELSE IF FullE(a) - FullE(b) > Prec + 2 THEN a
    ELSE IF FullE(b) - FullE(a) > Prec + 2 THEN b
    ELSE Aligned(a.s * FullM(a), FullE(a), b.s * FullM(b), FullE(b),
                 IF FullE(a) < FullE(b) THEN FullE(a) ELSE FullE(b))

FSub(a, b) == FAdd(a, Neg(b))

IsPos(d) == d.k = "fin" /\ d.m # 0 /\ d.s = 1

\* Python's comparisons: anything compared with nan is False
FGt(a, b) ==
    /\ a.k # "nan" /\ b.k # "nan"
    /\ IF a.k = "inf" THEN a.s = 1 /\ ~(b.k = "inf" /\ b.s = 1)
       ELSE IF b.k = "inf" THEN b.s = -1
       ELSE IsPos(FSub(a, b))

FLt(a, b) == FGt(b, a)

FLe(a, b) == a.k # "nan" /\ b.k # "nan" /\ ~FGt(a, b)

FEq(a, b) == FLe(a, b) /\ FLe(b, a)

Squared(a, r) == IF IsFin(a) /\ r.k = "inf" THEN Raise("OverflowError") ELSE r

\* x to the power 2: Python raises OverflowError where the square leaves the range
FSquare(a) == Squared(a, FMul(a, a))

(***************************************************************************)
(* math.log10 and the power x ** p, through the binary logarithm: log2 of  *)
(* the mantissa digit by digit (square, compare with 2), 2^fraction as a   *)
(* product of the roots 2^(1/2), 2^(1/4), ...                              *)
(***************************************************************************)
RECURSIVE Log2Frac(_, _)
RECURSIVE Log2Digit(_, _)
Log2Digit(sq, n) ==
    IF sq >= 2^(Prec + 2) THEN 2^(n - 1) + Log2Frac(sq \div 2, n - 1)
    ELSE Log2Frac(sq, n - 1)

Log2Frac(y, n) == IF n = 0 THEN 0 ELSE Log2Digit((y * y) \div 2^(Prec + 1), n)

\* log2 of a finite a > 0, in units of 2^-Prec
Log2Fix(a) == (FullE(a) + Prec - 1) * 2^Prec + Log2Frac(FullM(a) * 4, Prec)

FromFix(t) == Signed(t, 0 - Prec)

Dec(n, d) == FDiv(F(n), F(d))

FLog10(a) ==
    IF IsExc(a) THEN a
    ELSE IF a.k = "nan" THEN NaN
    ELSE IF a.s = -1 \/ IsZero(a) THEN Raise("ValueError")
    ELSE IF a.k = "inf" THEN Inf
    ELSE FMul(FromFix(Log2Fix(a)), Dec(30103, 100000))

Roots2 == <<23170, 19484, 17867, 17109, 16743, 16562, 16473,
            16428, 16406, 16395, 16390, 16387, 16385, 16385>>

\* 2^(fr / 2^Prec) in units of 2^-14, bit i of the fraction weighing 2^-i
RECURSIVE Exp2Frac(_, _, _)
Exp2Frac(fr, i, acc) ==
    IF i > Prec \/ i > Len(Roots2) THEN acc
    ELSE Exp2Frac(fr, i + 1,
                  IF (fr \div 2^(Prec - i)) % 2 = 1
                  THEN RShiftRound(acc * Roots2[i], 14) ELSE acc)

Floor2(t, d) == IF t >= 0 THEN t \div d ELSE 0 - ((d - 1 - t) \div d)

\* 2^(t / 2^Prec)
Exp2Fix(t) ==
    Norm(1, Exp2Frac(t - Floor2(t, 2^Prec) * 2^Prec, 1, 2^14), Floor2(t, 2^Prec) - 14)

\* l * p, l in units of 2^-Prec, its whole part li and fraction lf multiplied apart
TimesFix(li, lf, p) ==
    (IF li < 0 THEN 0 - Shift(p.m * (0 - li), p.e + Prec)
     ELSE Shift(p.m * li, p.e + Prec)) + Shift(p.m * lf, p.e)

PowFix(l, p) == Exp2Fix(TimesFix(Floor2(l, 2^Prec), l - Floor2(l, 2^Prec) * 2^Prec, p))

\* a ** p for a float power 0 < p < 2, as the code uses it on a > 0
FPow(a, p) ==
    IF IsExc(a) THEN a
    ELSE IF a.k = "nan" THEN NaN
    ELSE IF IsZero(a) THEN Zero
    ELSE IF a.s = -1 THEN Raise("TypeError")
    ELSE IF a.k = "inf" THEN Inf
    ELSE PowFix(Log2Fix(a), p)

(***************************************************************************)
(* The program.                                                            *)
(***************************************************************************)
None == [k |-> "None", s |-> 1, m |-> 0, e |-> 0]

FLUIDOS ==
    [f \in {"Agua a 20C", "Etanol a 20C", "Glicerina a 20C", "Oleo Leve (generico)"} |->
        CASE f = "Agua a 20C" -> [rho |-> Dec(9982, 10), nu |-> Dec(1004, 1000000000)]
          [] f = "Etanol a 20C" -> [rho |-> F(789), nu |-> Dec(151, 100000000)]
          [] f = "Glicerina a 20C" -> [rho |-> F(1261), nu |-> Dec(149, 100000)]
          [] f = "Oleo Leve (generico)" -> [rho |-> F(880), nu |-> Dec(15, 1000000)]]

g == Dec(981, 100)

Reynolds(velocidade, diametro_m, nu) ==
    IF FGt(nu, Zero) THEN FDiv(FMul(velocidade, diametro_m), nu) ELSE Zero

TermoLog(reynolds, rugosidade_m, diametro_m) ==
    FAdd(FDiv(rugosidade_m, FMul(Dec(37, 10), diametro_m)),
         FDiv(Dec(574, 100), FPow(reynolds, Dec(9, 10))))

\* lines 48-49
SwameeJain(termo_log) ==
    IF IsExc(termo_log) THEN termo_log
    ELSE IF FGt(termo_log, Zero) THEN FDiv(Dec(25, 100), FSquare(FLog10(termo_log)))
    ELSE Zero

\* the switch taken at Reynolds >= 4000 instead of Reynolds > 4000
FatorAtritoDesde4000(reynolds, rugosidade_m, diametro_m) ==
    IF IsExc(reynolds) THEN reynolds
    ELSE IF ~FLt(reynolds, F(4000)) /\ reynolds.k # "nan"
    THEN SwameeJain(TermoLog(reynolds, rugosidade_m, diametro_m))
    ELSE IF FGt(reynolds, Zero) THEN FDiv(F(64), reynolds)
    ELSE Zero

\* the two friction factors on the wrong sides of the switch
FatorAtritoTrocado(reynolds, rugosidade_m, diametro_m) ==
    IF IsExc(reynolds) THEN reynolds
    ELSE IF FGt(reynolds, F(4000)) THEN FDiv(F(64), reynolds)
    ELSE IF FGt(reynolds, Zero)
    THEN SwameeJain(TermoLog(reynolds, rugosidade_m, diametro_m))
    ELSE Zero

\* lines 44-51
FatorAtrito(reynolds, rugosidade_m, diametro_m) ==
    IF IsExc(reynolds) THEN reynolds
    ELSE IF FGt(reynolds, F(4000))
    THEN SwameeJain(TermoLog(reynolds, rugosidade_m, diametro_m))
    ELSE IF FGt(reynolds, Zero) THEN FDiv(F(64), reynolds)
    ELSE Zero

Perdas(x, principal, localizada, velocidade) ==
    [exc |-> x, principal |-> principal, localizada |-> localizada,
     velocidade |-> velocidade]

\* lines 59-63, or the exception that ended the function before them
RetornoPerdas(perda_carga_principal, perda_carga_localizada, velocidade) ==
    IF IsExc(perda_carga_principal) THEN Perdas(perda_carga_principal.k, None, None, None)
    ELSE IF IsExc(perda_carga_localizada)
    THEN Perdas(perda_carga_localizada.k, None, None, None)
    ELSE Perdas("", perda_carga_principal, perda_carga_localizada, velocidade)

\* lines 54-57
PerdasDoFator(fator_atrito, carga_cinetica, velocidade, comprimento_m, diametro_m, k_total) ==
    RetornoPerdas(FMul(FMul(fator_atrito, FDiv(comprimento_m, diametro_m)), carga_cinetica),
                  FMul(k_total, carga_cinetica), velocidade)

\* lines 41-51
PerdasDaVelocidade(velocidade, diametro_m, rugosidade_m, comprimento_m, k_total, nu) ==
    PerdasDoFator(FatorAtrito(Reynolds(velocidade, diametro_m, nu), rugosidade_m, diametro_m),
                  FDiv(FSquare(velocidade), FMul(F(2), g)),
                  velocidade, comprimento_m, diametro_m, k_total)

Area(diametro_m) == FDiv(FMul(Dec(355, 113), FSquare(diametro_m)), F(4))

\* lines 37-38
PerdasDoTubo(vazao_m3s, diametro_m, rugosidade_m, comprimento_m, k_total, nu) ==
    PerdasDaVelocidade(FDiv(vazao_m3s, Area(diametro_m)), diametro_m, rugosidade_m,
                       comprimento_m, k_total, nu)

\* the guard of line 25 written diametro_mm < 0
calcular_perda_carga_menor(vazao_m3h, diametro_mm, comprimento_m, rugosidade_mm, k_total, fluido_selecionado) ==
    IF FLt(diametro_mm, Zero) THEN Perdas("", Inf, Inf, Inf)
    ELSE IF fluido_selecionado \notin DOMAIN FLUIDOS
    THEN Perdas("KeyError", None, None, None)
    ELSE PerdasDoTubo(FDiv(vazao_m3h, F(3600)), FDiv(diametro_mm, F(1000)),
                      FDiv(rugosidade_mm, F(1000)), comprimento_m, k_total,
                      FLUIDOS[fluido_selecionado].nu)

calcular_perda_carga(vazao_m3h, diametro_mm, comprimento_m, rugosidade_mm, k_total, fluido_selecionado) ==
    IF FLe(diametro_mm, Zero) THEN Perdas("", Inf, Inf, Inf)
    ELSE IF fluido_selecionado \notin DOMAIN FLUIDOS
    THEN Perdas("KeyError", None, None, None)
    ELSE PerdasDoTubo(FDiv(vazao_m3h, F(3600)), FDiv(diametro_mm, F(1000)),
                      FDiv(rugosidade_mm, F(1000)), comprimento_m, k_total,
                      FLUIDOS[fluido_selecionado].nu)

Energia(x, kW, kWh, mensal, anual) ==
    [exc |-> x, potencia_eletrica_kW |-> kW, consumo_mensal_kWh |-> kWh,
     custo_mensal |-> mensal, custo_anual |-> anual]

\* the annual cost on twelve months of 30 days
CustoDoConsumo360(potencia_eletrica_kW, consumo_diario_kWh, custo_kwh) ==
    Energia("", potencia_eletrica_kW, FMul(consumo_diario_kWh, F(30)),
            FMul(FMul(consumo_diario_kWh, F(30)), custo_kwh),
            FMul(FMul(consumo_diario_kWh, F(360)), custo_kwh))

\* lines 77-85
CustoDoConsumo(potencia_eletrica_kW, consumo_diario_kWh, custo_kwh) ==
    Energia("", potencia_eletrica_kW, FMul(consumo_diario_kWh, F(30)),
            FMul(FMul(consumo_diario_kWh, F(30)), custo_kwh),
            FMul(FMul(consumo_diario_kWh, F(365)), custo_kwh))

\* lines 75-77
CustoDaPotencia(potencia_eletrica_kW, horas_dia, custo_kwh) ==
    CustoDoConsumo(potencia_eletrica_kW, FMul(potencia_eletrica_kW, horas_dia), custo_kwh)

\* line 72
PotenciaEixo(potencia_hidraulica_W, eficiencia_bomba) ==
    IF FGt(eficiencia_bomba, Zero) THEN FDiv(potencia_hidraulica_W, eficiencia_bomba)
    ELSE Zero

\* line 73 without its guard
PotenciaEletricaSemGuarda(potencia_eixo_W, eficiencia_motor) ==
    FDiv(potencia_eixo_W, eficiencia_motor)

\* line 73
PotenciaEletrica(potencia_eixo_W, eficiencia_motor) ==
    IF FGt(eficiencia_motor, Zero) THEN FDiv(potencia_eixo_W, eficiencia_motor)
    ELSE Zero

calcular_analise_energetica(vazao_m3h, h_man, eficiencia_bomba, eficiencia_motor, horas_dia, custo_kwh, fluido_selecionado) ==
    IF fluido_selecionado \notin DOMAIN FLUIDOS
    THEN Energia("KeyError", None, None, None, None)
    ELSE CustoDaPotencia(
             FDiv(PotenciaEletrica(
                      PotenciaEixo(
                          FMul(FMul(FMul(FDiv(vazao_m3h, F(3600)),
                                         FLUIDOS[fluido_selecionado].rho), g), h_man),
                          eficiencia_bomba),
                      eficiencia_motor),
                  F(1000)),
             horas_dia, custo_kwh)

\* the motor rule written as the elif of the pump rule
gerar_sugestoes_elif(eficiencia_bomba, eficiencia_motor, custo_anual, velocidade) ==
    (IF FGt(velocidade, F(3)) THEN <<(<<"ALERTA", velocidade>>)>>
     ELSE IF FLt(velocidade, Dec(5, 10)) THEN <<(<<"ATENCAO", velocidade>>)>>
     ELSE <<>>)
    \o (IF FLt(eficiencia_bomba, Dec(6, 10)) THEN <<(<<"BOMBA">>)>>
        ELSE IF FLt(eficiencia_motor, Dec(85, 100)) THEN <<(<<"MOTOR">>)>> ELSE <<>>)
    \o (IF FGt(custo_anual, F(5000)) THEN <<(<<"INVERSOR">>)>> ELSE <<>>)
    \o <<(<<"MANUTENCAO">>)>>

\* an advisory is <<tag>> or, with the velocity its text shows, <<tag, velocidade>>
gerar_sugestoes(eficiencia_bomba, eficiencia_motor, custo_anual, velocidade) ==
    (IF FGt(velocidade, F(3)) THEN <<(<<"ALERTA", velocidade>>)>>
     ELSE IF FLt(velocidade, Dec(5, 10)) THEN <<(<<"ATENCAO", velocidade>>)>>
     ELSE <<>>)
    \o (IF FLt(eficiencia_bomba, Dec(6, 10)) THEN <<(<<"BOMBA">>)>> ELSE <<>>)
    \o (IF FLt(eficiencia_motor, Dec(85, 100)) THEN <<(<<"MOTOR">>)>> ELSE <<>>)
    \o (IF FGt(custo_anual, F(5000)) THEN <<(<<"INVERSOR">>)>> ELSE <<>>)
    \o <<(<<"MANUTENCAO">>)>>

FMax(a, b) == IF FGt(b, a) THEN b ELSE a

Sample(start, step, stop, i, num) ==
    IF i = num THEN stop ELSE FAdd(FMul(F(i - 1), step), start)

\* numpy.linspace(start, stop, num): start + i * step, the last sample set to stop
Linspace(start, stop, num) ==
    [i \in 1..num |-> Sample(start, FDiv(FSub(stop, start), F(num - 1)), stop, i, num)]

NumPontos == 20

ParamsPerda ==
    {"vazao_m3h", "diametro_mm", "comprimento_m", "rugosidade_mm", "k_total",
     "fluido_selecionado"}

ParamsEnergia ==
    {"vazao_m3h", "h_man", "eficiencia_bomba", "eficiencia_motor", "horas_dia",
     "custo_kwh", "fluido_selecionado"}

\* Python binding f(nomeado=..., **kwargs) to the parameters of f, none with a default
Liga(params, nomeado, kwargs) ==
    IF nomeado \in DOMAIN kwargs \/ (DOMAIN kwargs \cup {nomeado}) # params
    THEN "TypeError" ELSE ""

\* lines 158-159: the annual cost at the head, or the exception raised
CustoDaAltura(h_man_calculado, kwargs) ==
    IF Liga(ParamsEnergia, "h_man", kwargs) # "" THEN Raise("TypeError")
    ELSE calcular_analise_energetica(kwargs.vazao_m3h, h_man_calculado,
             kwargs.eficiencia_bomba, kwargs.eficiencia_motor, kwargs.horas_dia,
             kwargs.custo_kwh, kwargs.fluido_selecionado).custo_anual

\* line 155
CustoDasPerdas(perdas, h_geometrica, kwargs) ==
    IF perdas.exc # "" THEN Raise(perdas.exc)
    ELSE CustoDaAltura(FAdd(FAdd(h_geometrica, perdas.principal), perdas.localizada),
                       kwargs)

\* lines 152-159, one pass of the loop: the annual cost at d_mm, or the exception
CustoDoDiametro(d_mm, h_geometrica, kwargs) ==
    IF Liga(ParamsPerda, "diametro_mm", kwargs) # "" THEN Raise("TypeError")
    ELSE CustoDasPerdas(
             calcular_perda_carga(kwargs.vazao_m3h, d_mm, kwargs.comprimento_m,
                 kwargs.rugosidade_mm, kwargs.k_total, kwargs.fluido_selecionado),
             h_geometrica, kwargs)

\* lines 155-158 with the arguments passed one by one, as lines 217 and 227 pass them
CustoDasPerdasDe(perdas, h_geometrica, kwargs) ==
    calcular_analise_energetica(kwargs.vazao_m3h,
        FAdd(FAdd(h_geometrica, perdas.principal), perdas.localizada),
        kwargs.eficiencia_bomba, kwargs.eficiencia_motor, kwargs.horas_dia,
        kwargs.custo_kwh, kwargs.fluido_selecionado).custo_anual

\* lines 154-158 with the arguments passed one by one, as lines 216-227 pass them
CustoNoDiametro(d_mm, h_geometrica, kwargs) ==
    CustoDasPerdasDe(
        calcular_perda_carga(kwargs.vazao_m3h, d_mm, kwargs.comprimento_m,
            kwargs.rugosidade_mm, kwargs.k_total, kwargs.fluido_selecionado),
        h_geometrica, kwargs)

DiametrosDoGrafico(diametro_base_mm) ==
    Linspace(FMax(F(25), FMul(diametro_base_mm, Dec(5, 10))),
             FMul(diametro_base_mm, F(2)), NumPontos)

\* the first exception among the values, in order, or "" when none was raised
RECURSIVE Raised(_, _)
Raised(vs, i) ==
    IF i > Len(vs) THEN ""
    ELSE IF IsExc(vs[i]) THEN vs[i].k ELSE Raised(vs, i + 1)

\* lines 161-165; when the loop raised, exc names the exception, diametros keeps
\* the samples the function had generated and custos is empty
DadosDoGrafico(diametros_mm, custos_anuais, x) ==
    [exc |-> x, diametros |-> diametros_mm,
     custos |-> IF x # "" THEN <<>> ELSE custos_anuais]

CustosDosDiametros(diametros_mm, h_geometrica, kwargs) ==
    [i \in 1..NumPontos |-> CustoDoDiametro(diametros_mm[i], h_geometrica, kwargs)]

GraficoDosCustos(diametros_mm, custos_anuais) ==
    DadosDoGrafico(diametros_mm, custos_anuais, Raised(custos_anuais, 1))

gerar_grafico_diametro_custo(diametro_base_mm, h_geometrica, kwargs) ==
    GraficoDosCustos(DiametrosDoGrafico(diametro_base_mm),
        CustosDosDiametros(DiametrosDoGrafico(diametro_base_mm), h_geometrica, kwargs))

(***************************************************************************)
(* The script: one run from the values of the sidebar's widgets to the     *)
(* report, an exception ending the run where it is raised.                 *)
(***************************************************************************)
Manual == "Informar manualmente"

DaTubulacao == "Calcular a partir da tubulacao"

Unbound == <<(<<"unbound">>)>>

PerdasUnbound == Perdas("unbound", None, None, None)

EnergiaUnbound == Energia("unbound", None, None, None, None)

GraficoUnbound == [exc |-> "unbound", diametros |-> <<>>, custos |-> <<>>]

Pct(n) == FDiv(F(n), F(100))

params_gerais ==
    [vazao_m3h |-> inp.vazao, comprimento_m |-> inp.comp_tub,
     rugosidade_mm |-> inp.rug_tub, k_total |-> inp.k_total_acessorios,
     fluido_selecionado |-> inp.fluido_selecionado,
     eficiencia_bomba |-> Pct(inp.rend_bomba), eficiencia_motor |-> Pct(inp.rend_motor),
     horas_dia |-> inp.horas_por_dia, custo_kwh |-> inp.tarifa_energia]

\* lines 215-225
PerdaCarga ==
    /\ pc = "calculos" /\ inp.tipo_calculo_h = DaTubulacao
    /\ LET r == calcular_perda_carga(inp.vazao, inp.diam_tub, inp.comp_tub, inp.rug_tub,
                                     inp.k_total_acessorios, inp.fluido_selecionado)
       IN  /\ calls' = Append(calls, "calcular_perda_carga")
           /\ IF r.exc # ""
              THEN /\ erro' = r.exc /\ pc' = "abortado"
                   /\ UNCHANGED <<perdas_dict, h_man_total, velocidade_fluido>>
              ELSE /\ perdas_dict' = r
                   /\ h_man_total' = FAdd(FAdd(inp.h_geometrica, r.principal), r.localizada)
                   /\ velocidade_fluido' = r.velocidade
                   /\ pc' = "energia" /\ UNCHANGED erro
    /\ UNCHANGED <<inp, resultados, chart_data, sugestoes, relatorio>>

\* lines 227-233
AnaliseEnergetica ==
    /\ \/ pc = "energia"
       \/ pc = "calculos" /\ inp.tipo_calculo_h # DaTubulacao
    /\ LET r == calcular_analise_energetica(inp.vazao, h_man_total, Pct(inp.rend_bomba),
                    Pct(inp.rend_motor), inp.horas_por_dia, inp.tarifa_energia,
                    inp.fluido_selecionado)
       IN  /\ calls' = Append(calls, "calcular_analise_energetica")
           /\ IF r.exc # ""
              THEN erro' = r.exc /\ pc' = "abortado" /\ UNCHANGED resultados
              ELSE /\ resultados' = r /\ UNCHANGED erro
                   /\ pc' = IF inp.tipo_calculo_h = DaTubulacao THEN "grafico"
                            ELSE "sugestoes"
    /\ UNCHANGED <<inp, perdas_dict, h_man_total, velocidade_fluido, chart_data,
                   sugestoes, relatorio>>

\* lines 236-256
Grafico ==
    /\ pc = "grafico"
    /\ LET r == gerar_grafico_diametro_custo(inp.diam_tub, inp.h_geometrica, params_gerais)
       IN  /\ calls' = Append(calls, "gerar_grafico_diametro_custo")
           /\ IF r.exc # ""
              THEN erro' = r.exc /\ pc' = "abortado" /\ UNCHANGED chart_data
              ELSE chart_data' = r /\ pc' = "sugestoes" /\ UNCHANGED erro
    /\ UNCHANGED <<inp, perdas_dict, h_man_total, velocidade_fluido, resultados,
                   sugestoes, relatorio>>

\* lines 258-265
Sugestoes ==
    /\ pc = "sugestoes"
    /\ IF velocidade_fluido # None
       THEN /\ sugestoes' = gerar_sugestoes(Pct(inp.rend_bomba), Pct(inp.rend_motor),
                                            resultados.custo_anual, velocidade_fluido)
            /\ calls' = Append(calls, "gerar_sugestoes")
       ELSE UNCHANGED <<sugestoes, calls>>
    /\ pc' = "relatorio"
    /\ UNCHANGED <<inp, perdas_dict, h_man_total, velocidade_fluido, resultados,
                   chart_data, relatorio, erro>>

\* lines 267-292: what criar_relatorio_pdf is given, the mappings by their labels
Relatorio ==
    /\ pc = "relatorio"
    /\ relatorio' = Append(relatorio,
          [inputs |-> {"Fluido", "Vazao", "Altura Manometrica Total", "Eficiencia da Bomba",
                       "Eficiencia do Motor", "Horas/Dia", "Tarifa"}
                      \cup (IF velocidade_fluido # None THEN {"Velocidade do Fluido"}
                            ELSE {}),
           resultados |-> {"Potencia Eletrica Consumida", "Custo Mensal", "Custo Anual"},
           sugestoes |-> IF velocidade_fluido # None THEN sugestoes ELSE <<>>])
    /\ calls' = Append(calls, "criar_relatorio_pdf")
    /\ pc' = "fim"
    /\ UNCHANGED <<inp, perdas_dict, h_man_total, velocidade_fluido, resultados,
                   chart_data, sugestoes, erro>>

\* the values the sidebar's widgets can hand the script (lines 177-206)
Fluidos == DOMAIN FLUIDOS

EntradasManual ==
    [tipo_calculo_h : {Manual}, fluido_selecionado : Fluidos,
     vazao : {Dec(1, 10), F(50)}, h_man_total : {F(1), F(30)},
     h_geometrica : {Zero}, comp_tub : {None}, diam_tub : {F(100)}, rug_tub : {None},
     k_total_acessorios : {None}, rend_bomba : {10, 59, 70}, rend_motor : {50, 84, 90},
     horas_por_dia : {F(8)}, tarifa_energia : {Dec(75, 100)}]

EntradasTubulacao ==
    [tipo_calculo_h : {DaTubulacao}, fluido_selecionado : Fluidos,
     vazao : {Dec(1, 10), F(50)}, h_man_total : {Zero},
     h_geometrica : {Zero, F(15)}, comp_tub : {F(100)}, diam_tub : {F(1), F(10), F(100)},
     rug_tub : {Dec(15, 100)}, k_total_acessorios : {Zero, F(5)},
     rend_bomba : {10, 59, 70}, rend_motor : {50, 84, 90},
     horas_por_dia : {F(8)}, tarifa_energia : {Dec(75, 100)}]

Init ==
    /\ pc = "calculos"
    /\ inp \in EntradasManual \cup EntradasTubulacao
    /\ h_man_total = inp.h_man_total
    /\ velocidade_fluido = None
    /\ perdas_dict = PerdasUnbound /\ resultados = EnergiaUnbound
    /\ chart_data = GraficoUnbound /\ sugestoes = Unbound
    /\ relatorio = <<>> /\ calls = <<>> /\ erro = ""

Next == PerdaCarga \/ AnaliseEnergetica \/ Grafico \/ Sugestoes \/ Relatorio

Spec == Init /\ [][Next]_vars

(***************************************************************************)
(* The functions called on their own: Init draws the arguments, the one    *)
(* action makes the call and keeps what it returned or raised.             *)
(***************************************************************************)
Specials == {Zero, Inf, Neg(Inf), NaN}

\* every float of the binade [2^x, 2^(x+1))
Binade(x) == {Norm(1, m, x + 1 - Prec) : m \in 2^(Prec - 1)..(2^Prec - 1)}

\* flows through the Reynolds = 4000 switch of a 100 mm pipe of light oil
EntradasVazao ==
    [vazao_m3h : Binade(4), diametro_mm : {F(100)}, comprimento_m : {F(100)},
     rugosidade_mm : {Dec(15, 100)}, k_total : {F(5)},
     fluido_selecionado : {"Oleo Leve (generico)"}]

\* roughnesses around 3.7 diameters
EntradasRugosidade ==
    [vazao_m3h : {F(50)}, diametro_mm : {F(100)}, comprimento_m : {F(100)},
     rugosidade_mm : Binade(8), k_total : {F(5)}, fluido_selecionado : {"Agua a 20C"}]

EntradasDegeneradas ==
    [vazao_m3h : {Zero, F(50), F(-50), NaN, Inf},
     diametro_mm : {Zero, F(-100), Neg(Inf), NaN, F(100), Inf},
     comprimento_m : {F(100), Zero}, rugosidade_mm : {Dec(15, 100), Zero, F(-1000)},
     k_total : {F(5), Zero}, fluido_selecionado : Fluidos \cup {"Mercurio"}]

EntradasPerda == EntradasVazao \cup EntradasRugosidade \cup EntradasDegeneradas

Parado ==
    /\ h_man_total = Zero /\ velocidade_fluido = None
    /\ perdas_dict = PerdasUnbound /\ resultados = EnergiaUnbound
    /\ chart_data = GraficoUnbound /\ sugestoes = Unbound
    /\ relatorio = <<>> /\ calls = <<>> /\ erro = ""

InitPerda == pc = "chamada" /\ inp \in EntradasPerda /\ Parado

ChamaPerda ==
    /\ pc = "chamada" /\ pc' = "retorno"
    /\ perdas_dict' = calcular_perda_carga(inp.vazao_m3h, inp.diametro_mm,
                          inp.comprimento_m, inp.rugosidade_mm, inp.k_total,
                          inp.fluido_selecionado)
    /\ calls' = Append(calls, "calcular_perda_carga")
    /\ UNCHANGED <<inp, h_man_total, velocidade_fluido, resultados, chart_data,
                   sugestoes, relatorio, erro>>

SpecPerda == InitPerda /\ [][ChamaPerda]_vars

EntradasEnergia ==
    [vazao_m3h : {Dec(1, 10), F(50), NaN}, h_man : {F(1), F(30), Zero, F(-5), Inf},
     eficiencia_bomba : {Zero, Dec(-5, 10), Dec(7, 10), F(1)},
     eficiencia_motor : {Zero, Dec(-5, 10), Dec(9, 10)},
     horas_dia : {F(1), F(8), F(24)}, custo_kwh : {Dec(1, 10), Dec(75, 100), F(2)},
     fluido_selecionado : Fluidos]

MaxUlps == 48

\* heads of a few units of the smallest float, whose costs are subnormal
EntradasSubnormais ==
    [vazao_m3h : {F(50)}, h_man : {Norm(1, n, EMinLsb) : n \in 1..MaxUlps},
     eficiencia_bomba : {Dec(7, 10)}, eficiencia_motor : {Dec(9, 10)},
     horas_dia : {F(1), F(8)}, custo_kwh : {Dec(25, 100), Dec(75, 100)},
     fluido_selecionado : Fluidos]

InitEnergia ==
    pc = "chamada" /\ inp \in EntradasEnergia \cup EntradasSubnormais /\ Parado

ChamaEnergia ==
    /\ pc = "chamada" /\ pc' = "retorno"
    /\ resultados' = calcular_analise_energetica(inp.vazao_m3h, inp.h_man,
                         inp.eficiencia_bomba, inp.eficiencia_motor, inp.horas_dia,
                         inp.custo_kwh, inp.fluido_selecionado)
    /\ calls' = Append(calls, "calcular_analise_energetica")
    /\ UNCHANGED <<inp, perdas_dict, h_man_total, velocidade_fluido, chart_data,
                   sugestoes, relatorio, erro>>

SpecEnergia == InitEnergia /\ [][ChamaEnergia]_vars

EntradasSugestoes ==
    [eficiencia_bomba : {Pct(10), Pct(59), Pct(60), Pct(70)},
     eficiencia_motor : {Pct(50), Pct(84), Pct(85), Pct(90)},
     custo_anual : {Zero, F(4096), F(5000), F(5008), F(9212), Inf},
     velocidade : {Zero, Pct(49), Pct(50), Pct(51), Pct(177), F(3), Pct(301), F(10),
                   Inf, NaN}]

InitSugestoes == pc = "chamada" /\ inp \in EntradasSugestoes /\ Parado

ChamaSugestoes ==
    /\ pc = "chamada" /\ pc' = "retorno"
    /\ sugestoes' = gerar_sugestoes(inp.eficiencia_bomba, inp.eficiencia_motor,
                                    inp.custo_anual, inp.velocidade)
    /\ calls' = Append(calls, "gerar_sugestoes")
    /\ UNCHANGED <<inp, perdas_dict, h_man_total, velocidade_fluido, resultados,
                   chart_data, relatorio, erro>>

SpecSugestoes == InitSugestoes /\ [][ChamaSugestoes]_vars

\* the keyword arguments of the sweep's one call, the script's merged mapping
KwGerais(vazao, fluido) ==
    [vazao_m3h |-> vazao, comprimento_m |-> F(100), rugosidade_mm |-> Dec(15, 100),
     k_total |-> F(5), fluido_selecionado |-> fluido,
     eficiencia_bomba |-> Pct(70), eficiencia_motor |-> Pct(90),
     horas_dia |-> F(8), custo_kwh |-> Dec(75, 100)]

MaxBase == 40

\* base diameters from 1 mm in steps of half a millimetre, and some larger ones
Bases == {FDiv(F(n), F(2)) : n \in 2..MaxBase} \cup {F(50), F(100), F(400)}

EntradasGrafico ==
    {[diametro_base_mm |-> b, h_geometrica |-> F(15), kwargs |-> kw] :
        b \in Bases,
        kw \in {KwGerais(v, f) : v \in {Dec(1, 10), F(50)}, f \in Fluidos}}

InitGrafico == pc = "chamada" /\ inp \in EntradasGrafico /\ Parado

ChamaGrafico ==
    /\ pc = "chamada" /\ pc' = "retorno"
    /\ chart_data' = gerar_grafico_diametro_custo(inp.diametro_base_mm, inp.h_geometrica,
                                                  inp.kwargs)
    /\ calls' = Append(calls, "gerar_grafico_diametro_custo")
    /\ UNCHANGED <<inp, perdas_dict, h_man_total, velocidade_fluido, resultados,
                   sugestoes, relatorio, erro>>

SpecGrafico == InitGrafico /\ [][ChamaGrafico]_vars

(***************************************************************************)
(* The claims.                                                             *)
(***************************************************************************)
\* The annual cost at two diameters of one installation.
MinDiametro == 96
MaxDiametro == 104
Passos == 32

\* diameters around the Reynolds = 4000 switch of 17 m3/h of light oil, Passos to
\* the millimetre
Diametros == {Dec(n, Passos) : n \in (MinDiametro * Passos)..(MaxDiametro * Passos)}

\* the float after a positive finite x
Seguinte(x) == Norm(1, x.m + 1, x.e)

\* each diameter with the float after it, and with the diameter a millimetre above
ParesDeDiametros ==
    {<<d, Seguinte(d)>> : d \in Diametros} \cup {<<d, FAdd(d, F(1))>> : d \in Diametros}

EntradasMonotonia ==
    {[diametros |-> par, h_geometrica |-> h, kwargs |-> kw] :
        par \in ParesDeDiametros, h \in {Zero, F(15)},
        kw \in {KwGerais(F(17), "Oleo Leve (generico)"),
                KwGerais(F(50), "Agua a 20C")}}

InitMonotonia == pc = "chamada" /\ inp \in EntradasMonotonia /\ Parado

ChamaAmostras ==
    /\ pc = "chamada" /\ pc' = "retorno"
    /\ chart_data' =
           [exc |-> "", diametros |-> inp.diametros,
            custos |-> <<CustoNoDiametro(inp.diametros[1], inp.h_geometrica, inp.kwargs),
                         CustoNoDiametro(inp.diametros[2], inp.h_geometrica, inp.kwargs)>>]
    /\ calls' = calls \o <<"calcular_perda_carga", "calcular_analise_energetica",
                           "calcular_perda_carga", "calcular_analise_energetica">>
    /\ UNCHANGED <<inp, perdas_dict, h_man_total, velocidade_fluido, resultados,
                   sugestoes, relatorio, erro>>

SpecMonotonia == InitMonotonia /\ [][ChamaAmostras]_vars

Retornou == pc = "retorno"

\* the Reynolds number of a call that returned, from its arguments and its velocity
ReynoldsDaChamada ==
    Reynolds(perdas_dict.velocidade, FDiv(inp.diametro_mm, F(1000)),
             FLUIDOS[inp.fluido_selecionado].nu)

\* Darcy-Weisbach: f * (L / d) * v^2 / (2 * 9.81)
DarcyWeisbach(f) ==
    FMul(FMul(f, FDiv(inp.comprimento_m, FDiv(inp.diametro_mm, F(1000)))),
         FDiv(FSquare(perdas_dict.velocidade), FMul(F(2), Dec(981, 100))))

\* 0.25 / log10(e / (3.7 d) + 5.74 / Re^0.9)^2, and 0 where the argument is not positive
FormulaSwameeJain(arg) ==
    IF FGt(arg, Zero) THEN FDiv(Dec(25, 100), FSquare(FLog10(arg))) ELSE Zero

RegraDoFator(re) ==
    /\ FGt(re, F(4000)) =>
          perdas_dict.principal =
              DarcyWeisbach(FormulaSwameeJain(
                  TermoLog(re, FDiv(inp.rugosidade_mm, F(1000)),
                           FDiv(inp.diametro_mm, F(1000)))))
    /\ (FGt(re, Zero) /\ FLe(re, F(4000))) =>
          perdas_dict.principal = DarcyWeisbach(FDiv(F(64), re))
    /\ FEq(re, Zero) => IsZero(perdas_dict.principal)

PerdaCalculada ==
    Retornou /\ perdas_dict.exc = "" /\ FGt(inp.diametro_mm, Zero)

\* C4: the major loss of every call that returns is the Darcy-Weisbach loss with the
\* friction factor of exactly one rule, chosen by the Reynolds number alone:
\* Swamee-Jain above 4000, 64/Re from 4000 (included) down to 0 (excluded), and a
\* zero loss at Reynolds 0.
C4_FatorPorRegime == PerdaCalculada => RegraDoFator(ReynoldsDaChamada)

\* C4's case: a call whose Reynolds number is exactly 4000, with a positive loss
C4_Witness ==
    /\ PerdaCalculada
    /\ FEq(ReynoldsDaChamada, F(4000))
    /\ FGt(perdas_dict.principal, Zero)

\* C6: a call with a fluid of the table never raises.
C6_NuncaLevanta ==
    (Retornou /\ inp.fluido_selecionado \in Fluidos) => perdas_dict.exc = ""

\* C7: a call with diametro_mm <= 0 returns +infinity in its three fields and raises
\* nothing, whatever the other arguments, a fluid missing from the table included.
C7_DiametroInvalido ==
    (Retornou /\ FLe(inp.diametro_mm, Zero)) => perdas_dict = Perdas("", Inf, Inf, Inf)

\* C7's case: diameter 0, a flow that is not a number and a fluid not in the table
C7_Witness ==
    /\ Retornou /\ IsZero(inp.diametro_mm)
    /\ inp.vazao_m3h = NaN /\ inp.fluido_selecionado \notin Fluidos
    /\ perdas_dict.velocidade = Inf

ConsumoDiario == FMul(resultados.potencia_eletrica_kW, inp.horas_dia)

BasesDeCusto ==
    /\ resultados.custo_mensal = FMul(FMul(ConsumoDiario, F(30)), inp.custo_kwh)
    /\ resultados.custo_anual = FMul(FMul(ConsumoDiario, F(365)), inp.custo_kwh)

DozeMeses == FEq(resultados.custo_anual, FMul(F(12), resultados.custo_mensal))

\* C9 as stated: the monthly cost is 30 days and the annual cost 365 days of the
\* daily consumption at the tariff, and the annual cost is twelve monthly costs
\* only when the cost is zero.
C9_SoQuandoZero ==
    Retornou => (BasesDeCusto /\ (DozeMeses => IsZero(resultados.custo_anual)))

\* a float below the smallest normal float, which keeps fewer than Prec bits
Subnormal(x) == IsFin(x) /\ x.m > 0 /\ x.m < 2^(Prec - 1)

\* C9 amended: the monthly cost is 30 days and the annual cost 365 days of the
\* daily consumption at the tariff, and the annual cost is twelve monthly costs
\* only when the cost is zero, infinite or subnormal.
C9_SoQuandoZeroInfinitoOuSubnormal ==
    Retornou =>
        (BasesDeCusto /\ (DozeMeses => \/ IsZero(resultados.custo_anual)
                                       \/ resultados.custo_anual.k = "inf"
                                       \/ Subnormal(resultados.custo_anual)))

\* C9's case: a finite cost above zero, which is not twelve monthly costs
C9_Witness ==
    /\ Retornou /\ IsFin(resultados.custo_anual)
    /\ FGt(resultados.custo_anual, Zero) /\ ~Subnormal(resultados.custo_anual)
    /\ ~DozeMeses

Tem(tag) == \E i \in DOMAIN sugestoes : sugestoes[i][1] = tag

Posto(tag) ==
    CASE tag \in {"ALERTA", "ATENCAO"} -> 1
      [] tag = "BOMBA" -> 2
      [] tag = "MOTOR" -> 3
      [] tag = "INVERSOR" -> 4
      [] OTHER -> 5

\* C5: the advisories never hold both velocity warnings, hold neither for a
\* velocity from 0.5 to 3.0, end with the maintenance advisory, hold the pump, motor
\* and inverter advisories exactly under their own thresholds, and keep the fixed
\* order.
C5_Sugestoes ==
    Retornou =>
        /\ ~(Tem("ALERTA") /\ Tem("ATENCAO"))
        /\ (FLe(Dec(5, 10), inp.velocidade) /\ FLe(inp.velocidade, F(3))) =>
               (~Tem("ALERTA") /\ ~Tem("ATENCAO"))
        /\ Len(sugestoes) >= 1 /\ sugestoes[Len(sugestoes)] = <<"MANUTENCAO">>
        /\ Tem("BOMBA") <=> FLt(inp.eficiencia_bomba, Dec(6, 10))
        /\ Tem("MOTOR") <=> FLt(inp.eficiencia_motor, Dec(85, 100))
        /\ Tem("INVERSOR") <=> FGt(inp.custo_anual, F(5000))
        /\ \A i, j \in DOMAIN sugestoes :
               i < j => Posto(sugestoes[i][1]) < Posto(sugestoes[j][1])

\* C5's case: every rule fires at once
C5_Witness ==
    /\ Retornou /\ FGt(inp.velocidade, F(3))
    /\ FLt(inp.eficiencia_bomba, Dec(6, 10)) /\ FLt(inp.eficiencia_motor, Dec(85, 100))
    /\ FGt(inp.custo_anual, F(5000))
    /\ Len(sugestoes) = 5

\* C1: every call of the sweep completes and returns 20 points, each cost the energy
\* cost at the head of its diameter.
C1_GraficoCompleto ==
    Retornou =>
        /\ chart_data.exc = ""
        /\ Len(chart_data.diametros) = 20 /\ Len(chart_data.custos) = 20
        /\ \A i \in 1..20 : chart_data.custos[i] =
               CustoNoDiametro(chart_data.diametros[i], inp.h_geometrica, inp.kwargs)

\* C2: the 20 samples run from max(25, base / 2) to 2 * base, each greater than the
\* one before it.
C2_AmostrasAscendentes ==
    Retornou =>
        /\ Len(chart_data.diametros) = 20
        /\ chart_data.diametros[1] = FMax(F(25), FDiv(inp.diametro_base_mm, F(2)))
        /\ chart_data.diametros[20] = FMul(F(2), inp.diametro_base_mm)
        /\ \A i \in 1..19 : FLt(chart_data.diametros[i], chart_data.diametros[i + 1])

Terminou == pc \in {"fim", "abortado"}

Antes(a, b) ==
    \E i, j \in DOMAIN calls : i < j /\ calls[i] = a /\ calls[j] = b

Chamou(a) == \E i \in DOMAIN calls : calls[i] = a

\* C10: every run of the script calls the report once, after the energy
\* calculation; from the pipe it gives it the advisories of the friction velocity and
\* the annual cost, and with a manual head it calls neither the friction function,
\* the sweep nor the advisory function and gives it no advisory.
C10_UmRelatorio ==
    Terminou =>
        /\ Len(relatorio) = 1
        /\ Antes("calcular_analise_energetica", "criar_relatorio_pdf")
        /\ IF inp.tipo_calculo_h = DaTubulacao
           THEN relatorio[1].sugestoes =
                    gerar_sugestoes(Pct(inp.rend_bomba), Pct(inp.rend_motor),
                                    resultados.custo_anual, perdas_dict.velocidade)
           ELSE /\ relatorio[1].sugestoes = <<>>
                /\ ~Chamou("calcular_perda_carga")
                /\ ~Chamou("gerar_grafico_diametro_custo")
                /\ ~Chamou("gerar_sugestoes")

\* the Reynolds number the friction function finds at the i-th diameter
ReynoldsNoDiametro(i) ==
    Reynolds(calcular_perda_carga(inp.kwargs.vazao_m3h, inp.diametros[i],
                 inp.kwargs.comprimento_m, inp.kwargs.rugosidade_mm, inp.kwargs.k_total,
                 inp.kwargs.fluido_selecionado).velocidade,
             FDiv(inp.diametros[i], F(1000)), FLUIDOS[inp.kwargs.fluido_selecionado].nu)

CustoNaoAumenta == FLe(chart_data.custos[2], chart_data.custos[1])

====
